---- MODULE Spec2Model ----
(***************************************************************************)
(* Model of the sfp_virustotal plugin (modules/sfp_virustotal.py).         *)
(*                                                                         *)
(* One plugin object is followed through any number of scan runs.  A scan  *)
(* run is one setup() followed by a bounded number of handleEvent() calls. *)
(* A                                                                       *)
(* handleEvent() call is one entry step (the checks of lines 139-188) and, *)
(* when a query list was built, one step per iteration of the loop of      *)
(* lines 190-262.  The host framework (fetchUrl, resolveHost, the target,  *)
(* checkForStop) is the environment: its answers are chosen with \E.       *)
(*                                                                         *)
(* Addresses are the low bits of an IPv4 address; a netblock is an address *)
(* and a prefix length out of 32.  Every value (address, netblock, name)   *)
(* is a record of the same shape so that one seen-set can hold them all.   *)
(***************************************************************************)
EXTENDS Integers, Sequences, FiniteSets

\* ---------------------------------------------------------------- bounds
MaxEvents   == 2   \* handleEvent() calls per scan run
MaxHostBits == 1   \* netblocks of the events have 0 .. MaxHostBits host bits
MaxListLen  == 1   \* entries of domain_siblings / subdomains in a response
MaxUrls     == 1   \* entries of detected_urls in a response

\* ------------------------------------------------------------- constants
AddrBits       == 32   \* IPv4 prefix lengths are out of 32
DefaultMaxCidr == 24   \* opts['maxnetblock'], opts['maxsubnet']

\* ---------------------------------------------------------------- values
Val(k, a, p, n) == [kind |-> k, addr |-> a, plen |-> p, name |-> n]
NoVal      == Val("none", 0, 0, "")
IPv(a)     == Val("ip", a, AddrBits, "")
Net(a, p)  == Val("net", a, p, "")
Name(n)    == Val("name", 0, 0, n)

Pow2(n) == 2 ^ n

\* a user-configured maximum that the largest blocks of the events exceed
SmallMaxCidr == AddrBits - MaxHostBits + 1

\* the addresses of the largest block, the values the events carry and the
\* host names the responses report
Addrs      == 0 .. (Pow2(MaxHostBits) - 1)
IPs        == {IPv(a) : a \in Addrs}
EventIPs   == {IPv(1)}
EventNets  == {Net(1, p) : p \in (AddrBits - MaxHostBits) .. AddrBits}
HostNames  == {"target.com", "www.target.com", "affil.net"}
Names      == {Name(n) : n \in HostNames}
EventNames == {Name("www.target.com")}
Queryable  == IPs \cup Names

\* sf.validIP(qry): is the query string an IP address
validIP(v) == v.kind = "ip"

\* self.getTarget().matches(s): hosts on the scan target's domain
matches(v) == v.name \in {"target.com", "www.target.com"}

\* sf.isDomain(s, tlds): a registrable domain rather than a host below one
isDomain(v) == v.name \in {"target.com", "affil.net"}

\* IPNetwork(eventData).prefixlen
prefixlen(v) == v.plen

\* for ipaddr in IPNetwork(eventData): the addresses of the block, in order,
\* starting at the network address whatever host bits the string carried
IPNetwork(v) ==
    LET size == Pow2(AddrBits - v.plen)
        base == v.addr - (v.addr % size)
    IN  [i \in 1 .. size |-> IPv(base + i - 1)]

SeqRange(s) == {s[i] : i \in 1 .. Len(s)}

\* ---------------------------------------------------------------- events
watchedEvents ==
    {"IP_ADDRESS", "AFFILIATE_IPADDR", "INTERNET_NAME",
     "CO_HOSTED_SITE", "NETBLOCK_OWNER", "NETBLOCK_MEMBER"}

producedEvents ==
    {"MALICIOUS_IPADDR", "MALICIOUS_INTERNET_NAME",
     "MALICIOUS_COHOST", "MALICIOUS_AFFILIATE_INTERNET_NAME",
     "MALICIOUS_AFFILIATE_IPADDR", "MALICIOUS_NETBLOCK",
     "MALICIOUS_SUBNET", "INTERNET_NAME", "AFFILIATE_INTERNET_NAME",
     "INTERNET_NAME_UNRESOLVED", "DOMAIN_NAME"}

\* the data the framework attaches to each watched event type
EventData(eventName) ==
    CASE eventName \in {"IP_ADDRESS", "AFFILIATE_IPADDR"}      -> EventIPs
      [] eventName \in {"INTERNET_NAME", "CO_HOSTED_SITE"}     -> EventNames
      [] eventName \in {"NETBLOCK_OWNER", "NETBLOCK_MEMBER"}   -> EventNets

startswith(s, prefix) ==
    CASE prefix = "AFFILIATE" -> s \in {"AFFILIATE_IPADDR", "AFFILIATE_INTERNET_NAME"}
      [] prefix = "NETBLOCK_" -> s \in {"NETBLOCK_OWNER", "NETBLOCK_MEMBER"}

\* --------------------------------------------------------------- options
OptKeys == {"api_key", "verify", "publicapi", "checkcohosts", "checkaffiliates",
            "netblocklookup", "maxnetblock", "subnetlookup", "maxsubnet"}

DefaultOpts ==
    [api_key |-> "", verify |-> TRUE, publicapi |-> TRUE,
     checkcohosts |-> TRUE, checkaffiliates |-> TRUE,
     netblocklookup |-> TRUE, maxnetblock |-> DefaultMaxCidr,
     subnetlookup |-> TRUE, maxsubnet |-> DefaultMaxCidr]

WithKey == [DefaultOpts EXCEPT !.api_key = "KEY"]

\* the userOpts dictionaries a scan hands to setup(): none (the default
\* argument), or the full option set: the defaults, the defaults with a key,
\* and the latter with one option changed
UserOptChoices ==
    { <<>>,
      DefaultOpts,
      WithKey,
      [WithKey EXCEPT !.verify = FALSE],
      [WithKey EXCEPT !.publicapi = FALSE],
      [WithKey EXCEPT !.checkcohosts = FALSE],
      [WithKey EXCEPT !.checkaffiliates = FALSE],
      [WithKey EXCEPT !.netblocklookup = FALSE],
      [WithKey EXCEPT !.subnetlookup = FALSE],
      [WithKey EXCEPT !.maxnetblock = SmallMaxCidr],
      [WithKey EXCEPT !.maxsubnet = SmallMaxCidr] }

\* ------------------------------------------------------------- responses
\* The framework's answers are chosen when the code reads them: the content
\* of the fetch and its detected_urls key in query() and lines 197-224, the
\* domain_siblings key at line 228, the subdomains key at line 249.  An
\* optional key is a set holding at most its value.
NoDupSeqs(S, n) ==
    UNION {{s \in [1 .. k -> S] : \A i, j \in 1 .. k : s[i] = s[j] => i = j} : k \in 0 .. n}

UrlLists    == {[i \in 1 .. k |-> "url"] : k \in 0 .. MaxUrls}
Optional(S) == {{}} \cup {{x} : x \in S}

\* res['content'] of fetchUrl: nothing, text that is not JSON, or a JSON
\* object with or without detected_urls
Contents ==
    {[kind |-> "none", detected_urls |-> {}], [kind |-> "malformed", detected_urls |-> {}]}
        \cup {[kind |-> "json", detected_urls |-> u] : u \in Optional(UrlLists)}

\* info['domain_siblings'], info['subdomains']: absent, or a list of hosts
HostLists == Optional(NoDupSeqs(Names, MaxListLen))

Has(key) == key # {}
Get(key) == CHOOSE x \in key : TRUE

\* the host names a list reports: the ones resolveHost can be asked about
Reported(key) == UNION {SeqRange(l) : l \in key}

\* ------------------------------------------------------------------ log
\* what one step of the loop body did, in order: calls made to the framework,
\* what they answered, and events handed to notifyListeners
Entry(o, t, v) == [op |-> o, typ |-> t, val |-> v]
Emit(evt, v)   == Entry("emit", evt, v)

VARIABLES
    pc,          \* "new" (constructed), "idle" (between calls), "loop" (at the top
                 \* of the for loop of handleEvent), "siblings" (at line 228),
                 \* "subdomains" (at line 249), "return" (handleEvent is returning)
    opts,        \* self.opts
    results,     \* self.results, the seen-set
    errorState,  \* self.errorState
    curEvent,    \* eventName and eventData of the running / last handleEvent call
    qrylist,     \* addresses the for loop has still to visit
    log,         \* the log of the last step of the loop body
    qcount,      \* per value, the number of query() calls of this scan run
    nEvents,     \* handleEvent() calls of this scan run
    response,    \* what the framework answered in the last step of the loop body
    nocontent,   \* the one failed fetch that is followed through the scan run: a
                 \* value whose fetch returned no content in this run, or none
    dropped      \* values of events the option filters dropped in this scan run

vars == <<pc, opts, results, errorState, curEvent, qrylist, log, qcount,
          nEvents, response, nocontent, dropped>>

NoEvent    == [type |-> "", data |-> NoVal]
NoResponse == [part |-> "", kind |-> "", detected_urls |-> {}, hosts |-> {}, resolving |-> {}]

Init ==
    /\ pc = "new"
    /\ opts = DefaultOpts
    /\ results = {}
    /\ errorState = FALSE
    /\ curEvent = NoEvent
    /\ qrylist = <<>>
    /\ log = <<>>
    /\ qcount = [v \in Queryable |-> 0]
    /\ nEvents = 0
    /\ response = NoResponse
    /\ nocontent = NoVal
    /\ dropped = {}

\* ---------------------------------------------------------------- setup
\* setup(): a fresh tempStorage() and the user's options written over
\* self.opts; nothing else is assigned
MergeOpts(o, userOpts) ==
    [k \in OptKeys |-> IF k \in DOMAIN userOpts THEN userOpts[k] ELSE o[k]]

setup(userOpts) ==
    /\ pc \in {"new", "idle"}
    /\ results' = {}
    /\ opts' = MergeOpts(opts, userOpts)
    /\ pc' = "idle"
    /\ nEvents' = 0
    /\ qcount' = [v \in Queryable |-> 0]
    /\ curEvent' = NoEvent
    /\ log' = <<>>
    /\ response' = NoResponse
    /\ nocontent' = NoVal
    /\ dropped' = {}
    /\ UNCHANGED <<errorState, qrylist>>

\* ---------------------------------------------------------------- query
\* query(qry) given the content fetchUrl returns: the parsed object (a set
\* holding it, or the empty set for None), whether errorState was set, and
\* the calls made in order
FetchEntry(qry) == Entry("fetch", IF validIP(qry) THEN "ip-address" ELSE "domain", qry)
SleepEntry      == Entry("sleep", "15", NoVal)
InfoEntry(qry)  == Entry("info", "No VirusTotal info found", qry)
ErrorEntry      == Entry("error", "Error processing JSON response", NoVal)

SleepTrace(o) == IF o.publicapi THEN <<SleepEntry>> ELSE <<>>

\* the delay placed after the no-content return instead of before it
queryLateSleep(qry, content, o) ==
    CASE content.kind = "none" ->
           [ret |-> {}, err |-> FALSE, trace |-> <<FetchEntry(qry), InfoEntry(qry)>>]
      [] content.kind = "malformed" ->
           [ret |-> {}, err |-> TRUE,
            trace |-> <<FetchEntry(qry)>> \o SleepTrace(o) \o <<ErrorEntry>>]
      [] content.kind = "json" ->
           [ret |-> {content}, err |-> FALSE,
            trace |-> <<FetchEntry(qry)>> \o SleepTrace(o)]

query(qry, content, o) ==
    LET trace == <<FetchEntry(qry)>> \o SleepTrace(o)
    IN  CASE content.kind = "none" ->
               [ret |-> {}, err |-> FALSE, trace |-> trace \o <<InfoEntry(qry)>>]
          [] content.kind = "malformed" ->
               [ret |-> {}, err |-> TRUE, trace |-> trace \o <<ErrorEntry>>]
          [] content.kind = "json" ->
               [ret |-> {content}, err |-> FALSE, trace |-> trace]

\* ---------------------------------------------------- handleEvent: entry
\* the API key check left out
ApiKeyNeverMissing(o) == FALSE

ApiKeyMissing(o) == o.api_key = ""

AlreadyChecked(eventData, res) == eventData \in res

\* lines 156-160: the affiliate and co-host switches
OptionDisabled(eventName, o) ==
    \/ startswith(eventName, "AFFILIATE") /\ ~o.checkaffiliates
    \/ eventName = "CO_HOSTED_SITE" /\ ~o.checkcohosts

\* lines 162-180: the netblock switches and size limits
LookupDisabled(eventName, o) ==
    \/ eventName = "NETBLOCK_OWNER" /\ ~o.netblocklookup
    \/ eventName = "NETBLOCK_MEMBER" /\ ~o.subnetlookup

\* the size comparison off by one
TooBigOrEqual(eventName, eventData, o) ==
    \/ eventName = "NETBLOCK_OWNER" /\ prefixlen(eventData) <= o.maxnetblock
    \/ eventName = "NETBLOCK_MEMBER" /\ prefixlen(eventData) <= o.maxsubnet

TooBig(eventName, eventData, o) ==
    \/ eventName = "NETBLOCK_OWNER" /\ prefixlen(eventData) < o.maxnetblock
    \/ eventName = "NETBLOCK_MEMBER" /\ prefixlen(eventData) < o.maxsubnet

Dropped(eventName, eventData, o) ==
    \/ OptionDisabled(eventName, o)
    \/ LookupDisabled(eventName, o)
    \/ TooBig(eventName, eventData, o)

\* lines 182-188
BuildQryList(eventName, eventData) ==
    IF startswith(eventName, "NETBLOCK_") THEN IPNetwork(eventData) ELSE <<eventData>>

\* line 186: every address of the block is recorded as seen
Expanded(eventName, eventData) ==
    IF startswith(eventName, "NETBLOCK_") THEN SeqRange(IPNetwork(eventData)) ELSE {}

Return == pc' = "return" /\ qrylist' = <<>>

handleEvent(eventName, eventData) ==
    /\ pc = "idle"
    /\ nEvents < MaxEvents
    /\ nEvents' = nEvents + 1
    /\ curEvent' = [type |-> eventName, data |-> eventData]
    /\ log' = <<>>
    /\ response' = NoResponse
    /\ UNCHANGED <<opts, qcount, nocontent>>
    /\ IF errorState
         THEN Return /\ UNCHANGED <<results, errorState, dropped>>
       ELSE IF ApiKeyMissing(opts)
         THEN Return /\ errorState' = TRUE /\ UNCHANGED <<results, dropped>>
       ELSE IF AlreadyChecked(eventData, results)
         THEN Return /\ UNCHANGED <<results, errorState, dropped>>
       ELSE IF Dropped(eventName, eventData, opts)
         THEN /\ Return
              /\ results' = results \cup {eventData}
              /\ dropped' = dropped \cup {eventData}
              /\ UNCHANGED errorState
       ELSE /\ results' = results \cup {eventData} \cup Expanded(eventName, eventData)
            /\ qrylist' = BuildQryList(eventName, eventData)
            /\ pc' = "loop"
            /\ UNCHANGED <<errorState, dropped>>

\* ----------------------------------------------------- handleEvent: loop
\* the affiliate branch left out, so that the event type of the IP branch stays
MaliciousEvtNoAffiliate(eventName) ==
    CASE eventName \in {"IP_ADDRESS", "AFFILIATE_IPADDR"}
            \/ startswith(eventName, "NETBLOCK_") -> "MALICIOUS_IPADDR"
      [] eventName = "INTERNET_NAME"           -> "MALICIOUS_INTERNET_NAME"
      [] eventName = "AFFILIATE_INTERNET_NAME" -> "MALICIOUS_AFFILIATE_INTERNET_NAME"
      [] eventName = "CO_HOSTED_SITE"          -> "MALICIOUS_COHOST"

\* lines 199-217
MaliciousEvt(eventName) ==
    CASE eventName = "IP_ADDRESS" \/ startswith(eventName, "NETBLOCK_") -> "MALICIOUS_IPADDR"
      [] eventName = "AFFILIATE_IPADDR"        -> "MALICIOUS_AFFILIATE_IPADDR"
      [] eventName = "INTERNET_NAME"           -> "MALICIOUS_INTERNET_NAME"
      [] eventName = "AFFILIATE_INTERNET_NAME" -> "MALICIOUS_AFFILIATE_INTERNET_NAME"
      [] eventName = "CO_HOSTED_SITE"          -> "MALICIOUS_COHOST"

\* lines 197-224
DetectedLog(eventName, addr, info) ==
    IF Len(IF Has(info.detected_urls) THEN Get(info.detected_urls) ELSE <<>>) > 0
      THEN <<Entry("info", "Found VirusTotal URL data", addr),
             Emit(MaliciousEvt(eventName), addr)>>
      ELSE <<>>

ResolveEntry(h, resolving) == Entry("resolve", IF h \in resolving THEN "yes" ELSE "no", h)

DomainLog(h) == IF isDomain(h) THEN <<Emit("DOMAIN_NAME", h)>> ELSE <<>>

\* lines 231-247, one entry s of domain_siblings
SiblingLog(s, res, o, resolving) ==
    IF matches(s)
      THEN (IF s \notin res
              THEN (IF o.verify
                      THEN <<ResolveEntry(s, resolving),
                             Emit(IF s \notin resolving THEN "INTERNET_NAME_UNRESOLVED"
                                                        ELSE "INTERNET_NAME", s)>>
                      ELSE <<>>)
                   \o DomainLog(s)
              ELSE <<>>)
      ELSE (IF s \notin res THEN <<Emit("AFFILIATE_INTERNET_NAME", s)>> ELSE <<>>)

\* lines 250-262, one entry n of subdomains
SubdomainLog(n, res, o, resolving) ==
    (IF n \notin res
       THEN (IF o.verify
               THEN <<ResolveEntry(n, resolving)>> \o
                    (IF n \notin resolving
                       THEN <<Emit("INTERNET_NAME_UNRESOLVED", n)>> ELSE <<>>)
               ELSE <<Emit("INTERNET_NAME", n)>>)
            \o DomainLog(n)
       ELSE <<>>)

RECURSIVE SiblingsLog(_, _, _, _)
SiblingsLog(list, res, o, resolving) ==
    IF list = <<>> THEN <<>>
    ELSE SiblingLog(Head(list), res, o, resolving) \o SiblingsLog(Tail(list), res, o, resolving)

RECURSIVE SubdomainsLog(_, _, _, _)
SubdomainsLog(list, res, o, resolving) ==
    IF list = <<>> THEN <<>>
    ELSE SubdomainLog(Head(list), res, o, resolving) \o SubdomainsLog(Tail(list), res, o, resolving)

\* for addr in qrylist: the next address, or the end of the loop
Advance(rest) ==
    /\ qrylist' = rest
    /\ pc' = IF rest = <<>> THEN "return" ELSE "loop"

\* where the loop body goes on after line 224 and after line 247: the blocks
\* of lines 228-247 and 249-262 do something for these event types only
AfterDetected(eventName) ==
    IF eventName \in {"IP_ADDRESS", "INTERNET_NAME"} THEN "siblings" ELSE "loop"

AfterSiblings(eventName) ==
    IF eventName = "INTERNET_NAME" THEN "subdomains" ELSE "loop"

\* checkForStop(): whether the scan orchestrator has asked the scan to stop
checkForStop(stopRequested) == stopRequested

\* lines 191-224, checkForStop() answering False: query(addr) with the
\* content the framework returns, and the malicious-indicator event
LoopQuery(stopRequested) ==
    /\ pc = "loop"
    /\ ~checkForStop(stopRequested)
    /\ \E content \in Contents :
          LET addr == Head(qrylist)
              q    == query(addr, content, opts)
          IN  /\ errorState' = (errorState \/ q.err)
              /\ qcount' = [qcount EXCEPT ![addr] = @ + 1]
              /\ nocontent' \in IF content.kind = "none" THEN {nocontent, addr}
                                                         ELSE {nocontent}
              /\ response' = [NoResponse EXCEPT !.part = "report", !.kind = content.kind,
                                                !.detected_urls = content.detected_urls]
              /\ IF q.ret = {}
                   THEN /\ log' = q.trace
                        /\ Advance(Tail(qrylist))
                   ELSE /\ log' = q.trace \o DetectedLog(curEvent.type, addr, Get(q.ret))
                        /\ IF AfterDetected(curEvent.type) = "loop"
                             THEN Advance(Tail(qrylist))
                             ELSE pc' = AfterDetected(curEvent.type) /\ UNCHANGED qrylist
    /\ UNCHANGED <<opts, results, curEvent, nEvents, dropped>>

\* lines 228-247: the domain_siblings key of the response
Siblings ==
    /\ pc = "siblings"
    /\ \E key \in HostLists : \E resolving \in SUBSET Reported(key) :
          /\ log' = IF Has(key) THEN SiblingsLog(Get(key), results, opts, resolving) ELSE <<>>
          /\ response' = [NoResponse EXCEPT !.part = "siblings", !.kind = "json",
                                            !.hosts = key, !.resolving = resolving]
    /\ IF AfterSiblings(curEvent.type) = "loop"
         THEN Advance(Tail(qrylist))
         ELSE pc' = AfterSiblings(curEvent.type) /\ UNCHANGED qrylist
    /\ UNCHANGED <<opts, results, errorState, curEvent, qcount, nEvents,
                   nocontent, dropped>>

\* lines 249-262: the subdomains key of the response
Subdomains ==
    /\ pc = "subdomains"
    /\ \E key \in HostLists : \E resolving \in SUBSET Reported(key) :
          /\ log' = IF Has(key) THEN SubdomainsLog(Get(key), results, opts, resolving) ELSE <<>>
          /\ response' = [NoResponse EXCEPT !.part = "subdomains", !.kind = "json",
                                            !.hosts = key, !.resolving = resolving]
    /\ Advance(Tail(qrylist))
    /\ UNCHANGED <<opts, results, errorState, curEvent, qcount, nEvents,
                   nocontent, dropped>>

\* lines 191-192: checkForStop() answers True, handleEvent returns
LoopStop(stopRequested) ==
    /\ pc = "loop"
    /\ checkForStop(stopRequested)
    /\ Return
    /\ log' = <<>>
    /\ response' = NoResponse
    /\ UNCHANGED <<opts, results, errorState, curEvent, qcount, nEvents,
                   nocontent, dropped>>

\* handleEvent hands control back to the framework
Returned ==
    /\ pc = "return"
    /\ pc' = "idle"
    /\ curEvent' = NoEvent
    /\ log' = <<>>
    /\ response' = NoResponse
    /\ UNCHANGED <<opts, results, errorState, qrylist, qcount, nEvents,
                   nocontent, dropped>>

Next ==
    \/ \E userOpts \in UserOptChoices : setup(userOpts)
    \/ \E eventName \in watchedEvents : \E eventData \in EventData(eventName) :
          handleEvent(eventName, eventData)
    \/ \E stopRequested \in BOOLEAN : LoopQuery(stopRequested)
    \/ Siblings
    \/ Subdomains
    \/ \E stopRequested \in BOOLEAN : LoopStop(stopRequested)
    \/ Returned

Spec == Init /\ [][Next]_vars

TypeOK ==
    /\ pc \in {"new", "idle", "loop", "siblings", "subdomains", "return"}
    /\ results \subseteq (IPs \cup Names \cup EventNets)
    /\ errorState \in BOOLEAN
    /\ nEvents \in 0 .. MaxEvents

\* ------------------------------------------------------------ properties
HandleStep     == pc = "idle" /\ pc' # "idle"
QueryStepOn(a) == qcount'[a] = qcount[a] + 1
SetupStep      == pc \in {"new", "idle"} /\ pc' = "idle"
KeySet         == opts.api_key # ""

Emits(l)    == SelectSeq(l, LAMBDA e : e.op = "emit")
Count(l, x) == Cardinality({i \in 1 .. Len(l) : l[i] = x})
OpCount(l, o) == Cardinality({i \in 1 .. Len(l) : l[i].op = o})
ListOf(key) == IF key = {} THEN <<>> ELSE CHOOSE x \in key : TRUE

\* C1: within one scan run no value (address or name) is passed to query()
\* more than once, however it arrives: as its own event, or as a member of
\* one or several netblocks.
C1_NoValueQueriedTwice ==
    \A v \in Queryable : qcount[v] <= 1

\* C2: once errorState is set it stays set, and from then on no query is
\* issued and no event is emitted, neither in later handleEvent calls nor for
\* the remaining addresses of the call that received the malformed response.
C2_ErrorStateSuppresses ==
    [][errorState =>
          /\ errorState'
          /\ \A v \in Queryable : ~QueryStepOn(v)
          /\ (Emits(log') = <<>> \/ log' = log)]_vars

\* C3: with an empty api_key a handleEvent call issues no query, emits no
\* event, leaves the seen-set unchanged and leaves errorState set; every call
\* made while errorState is set returns without query or event; and no query
\* is ever issued while the key is empty.
C3_MissingKeyHalts ==
    [][/\ (HandleStep /\ (~KeySet \/ errorState)) =>
             /\ pc' = "return"
             /\ errorState'
             /\ results' = results
             /\ qcount' = qcount
             /\ log' = <<>>
       /\ \A v \in Queryable : QueryStepOn(v) => KeySet]_vars

C3_Witness ==
    /\ nEvents = 2 /\ pc = "return"
    /\ ~KeySet /\ errorState /\ results = {}
    /\ \A v \in Queryable : qcount[v] = 0

\* C4: a NETBLOCK_OWNER event with a prefix length below maxnetblock, and a
\* NETBLOCK_MEMBER event with a prefix length below maxsubnet, starts no
\* query loop and emits nothing; a block whose prefix length is at least the
\* maximum, and that passes the other checks, has all its addresses queued.
C4_NetblockSizeLimit ==
    [][HandleStep =>
          LET e     == curEvent'
              limit == IF e.type = "NETBLOCK_OWNER" THEN opts.maxnetblock ELSE opts.maxsubnet
              on    == IF e.type = "NETBLOCK_OWNER" THEN opts.netblocklookup ELSE opts.subnetlookup
          IN  e.type \in {"NETBLOCK_OWNER", "NETBLOCK_MEMBER"} =>
                /\ e.data.plen < limit =>
                      pc' = "return" /\ qcount' = qcount /\ log' = <<>>
                /\ (e.data.plen >= limit /\ on /\ ~errorState /\ KeySet
                        /\ e.data \notin results) =>
                      /\ pc' = "loop"
                      /\ Len(qrylist') = 2 ^ (AddrBits - e.data.plen)
                      /\ \A i \in 1 .. Len(qrylist') :
                            qrylist'[i].addr \div (2 ^ (AddrBits - e.data.plen))
                               = e.data.addr \div (2 ^ (AddrBits - e.data.plen))]_vars

C4_Witness ==
    /\ pc = "return" /\ ~errorState /\ KeySet
    /\ curEvent.type = "NETBLOCK_OWNER" /\ opts.netblocklookup
    /\ curEvent.data.plen < opts.maxnetblock
    /\ curEvent.data \in dropped
    /\ \A v \in Queryable : qcount[v] = 0

\* C5: a fetch that returns no content does not set errorState and emits
\* nothing, the loop goes on to the remaining addresses, and the address is
\* not fetched again in the scan run.
C5_FetchFailureSkipped ==
    [][\A a \in Queryable : QueryStepOn(a) =>
          /\ a # nocontent
          /\ response'.kind = "none" =>
                /\ errorState' = errorState
                /\ Emits(log') = <<>>
                /\ (Tail(qrylist) # <<>> => pc' = "loop")]_vars

\* C6: a queried address whose response has a non-empty detected_urls list
\* yields exactly one malicious-indicator event, of the type the input event
\* type fixes, and about that address; a response without detected URLs, and
\* a query without a parsed response, yields none; every emitted event type
\* is one of producedEvents().
MaliciousTypes ==
    {"MALICIOUS_IPADDR", "MALICIOUS_INTERNET_NAME", "MALICIOUS_COHOST",
     "MALICIOUS_AFFILIATE_INTERNET_NAME", "MALICIOUS_AFFILIATE_IPADDR",
     "MALICIOUS_NETBLOCK", "MALICIOUS_SUBNET"}

ExpectedIndicator(t) ==
    CASE t \in {"IP_ADDRESS", "NETBLOCK_OWNER", "NETBLOCK_MEMBER"} -> "MALICIOUS_IPADDR"
      [] t = "AFFILIATE_IPADDR" -> "MALICIOUS_AFFILIATE_IPADDR"
      [] t = "INTERNET_NAME"    -> "MALICIOUS_INTERNET_NAME"
      [] t = "CO_HOSTED_SITE"   -> "MALICIOUS_COHOST"

C6_IndicatorMapping ==
    LET mal == SelectSeq(log, LAMBDA e : e.op = "emit" /\ e.typ \in MaliciousTypes)
    IN  /\ \A i \in 1 .. Len(log) : log[i].op = "emit" => log[i].typ \in producedEvents
        /\ IF /\ response.part = "report" /\ response.kind = "json"
              /\ ListOf(response.detected_urls) # <<>>
             THEN /\ Len(mal) = 1
                  /\ mal[1].typ = ExpectedIndicator(curEvent.type)
                  /\ mal[1].val = log[1].val
             ELSE mal = <<>>

C6_Witness ==
    /\ curEvent.type = "AFFILIATE_IPADDR"
    /\ response.kind = "json"
    /\ Emits(log) = <<Emit("MALICIOUS_AFFILIATE_IPADDR", curEvent.data)>>

\* C7: every query() call makes exactly one fetch, the first thing it does;
\* with publicapi on the 15-second sleep is the very next step whatever the
\* fetch returned, and there is only one; with publicapi off there is none;
\* nothing else in the loop body fetches or sleeps.
C7_OneFetchThenDelay ==
    IF response.part = "report"
      THEN /\ log # <<>>
           /\ log[1].op = "fetch" /\ OpCount(log, "fetch") = 1
           /\ qcount[log[1].val] >= 1
           /\ IF opts.publicapi
                THEN Len(log) >= 2 /\ log[2] = SleepEntry /\ OpCount(log, "sleep") = 1
                ELSE OpCount(log, "sleep") = 0
      ELSE OpCount(log, "fetch") = 0 /\ OpCount(log, "sleep") = 0

C7_Witness ==
    /\ opts.publicapi
    /\ response.kind = "none"
    /\ Len(log) = 3 /\ log[1].op = "fetch" /\ log[2].op = "sleep" /\ log[3].op = "info"

\* C8: immediately after any setup() call the seen-set is empty and
\* errorState is False.
C8_SetupClears ==
    (pc = "idle" /\ nEvents = 0) => (results = {} /\ ~errorState)

\* C9: with verify on, every host name that the response to an INTERNET_NAME
\* event reports (a target-matching entry of domain_siblings, or an entry of
\* subdomains) and that is not in the seen-set yields exactly one host name
\* event per report: INTERNET_NAME if it resolves, INTERNET_NAME_UNRESOLVED
\* if it does not.
C9_VerifiedHostnames ==
    (/\ curEvent.type = "INTERNET_NAME" /\ opts.verify
     /\ response.part \in {"siblings", "subdomains"}) =>
        \A h \in Names \ results :
           LET reports == IF response.part = "siblings" /\ ~matches(h)
                            THEN 0 ELSE Count(ListOf(response.hosts), h)
               evts    == {i \in 1 .. Len(log) :
                             /\ log[i].op = "emit"
                             /\ log[i].typ \in {"INTERNET_NAME", "INTERNET_NAME_UNRESOLVED"}
                             /\ log[i].val = h}
           IN  /\ Cardinality(evts) = reports
               /\ \A i \in evts :
                     log[i].typ = IF h \in response.resolving
                                    THEN "INTERNET_NAME"
                                    ELSE "INTERNET_NAME_UNRESOLVED"

\* C10: an event that passes the error-state and API-key checks has its value
\* in the seen-set afterwards, also when an option filter or the size limit
\* drops it; a later event carrying a dropped value is skipped; a dropped
\* value is never queried in the scan run; the seen-set only grows between two
\* setup() calls.
C10_SeenBeforeFilters ==
    [][/\ (HandleStep /\ ~errorState /\ KeySet) => curEvent'.data \in results'
       /\ (HandleStep /\ curEvent'.data \in dropped) => pc' = "return"
       /\ ~SetupStep => results \subseteq results'
       /\ \A a \in Queryable : QueryStepOn(a) => a \notin dropped]_vars

====
